---- MODULE Spec2Model ----
(***************************************************************************)
(* Traceroute topology reconstruction of scripts/analyze_traceroute.py:    *)
(* the fold of build_network_graph over a list of parsed traceroute runs,  *)
(* with classify_node evaluated on the characters of its arguments.        *)
(***************************************************************************)
EXTENDS Integers, Sequences, FiniteSets, TLC

(***************************************************************************)
(* Bounds of the explored inputs.                                          *)
(***************************************************************************)
\* hop records over all the files of one exploration
MaxTotalHops ==
    4

\* how often the report is generated from one graph
MaxReports ==
    2

(***************************************************************************)
(* Python values.                                                          *)
(***************************************************************************)
\* 'rtt_ms': None (a hop without reply, and the synthetic target entry)
None ==
    -1

\* result['target'] = None (no "traceroute to X" in the first line)
NoTarget ==
    "None"

EmptyMap ==
    [k \in {} |-> k]

Range(s) ==
    {s[i] : i \in DOMAIN s}

(***************************************************************************)
(* Strings.  Node keys, host names and file-name parts are TLA+ strings;   *)
(* Chars spells the ones whose characters the code inspects.               *)
(***************************************************************************)
Chars(s) ==
    CASE s = "timeout" -> <<"t", "i", "m", "e", "o", "u", "t">>
      [] s = "client" -> <<"c", "l", "i", "e", "n", "t">>
      [] s = "10.0.0.5" -> <<"1", "0", ".", "0", ".", "0", ".", "5">>
      [] s = "8.8.8.8" -> <<"8", ".", "8", ".", "8", ".", "8">>
      [] s = "example.com" -> <<"e", "x", "a", "m", "p", "l", "e", ".", "c", "o", "m">>
      [] s = "gateway" -> <<"g", "a", "t", "e", "w", "a", "y">>
      [] s = "host" -> <<"h", "o", "s", "t">>
      [] s = "dns.google" -> <<"d", "n", "s", ".", "g", "o", "o", "g", "l", "e">>
      [] s = "192.168." -> <<"1", "9", "2", ".", "1", "6", "8", ".">>
      [] s = "10." -> <<"1", "0", ".">>
      [] s = "172." -> <<"1", "7", "2", ".">>
      [] s = ".1" -> <<".", "1">>
      [] s = "silvus" -> <<"s", "i", "l", "v", "u", "s">>
      [] s = "radio" -> <<"r", "a", "d", "i", "o">>
      [] s = "mesh" -> <<"m", "e", "s", "h">>
      [] s = "viasat" -> <<"v", "i", "a", "s", "a", "t">>
      [] s = "satellite" -> <<"s", "a", "t", "e", "l", "l", "i", "t", "e">>
      [] s = "sat" -> <<"s", "a", "t">>
      [] s = "isp" -> <<"i", "s", "p">>
      [] s = "comcast" -> <<"c", "o", "m", "c", "a", "s", "t">>
      [] s = "att" -> <<"a", "t", "t">>
      [] s = "verizon" -> <<"v", "e", "r", "i", "z", "o", "n">>
      [] s = "spectrum" -> <<"s", "p", "e", "c", "t", "r", "u", "m">>
      [] s = "server" -> <<"s", "e", "r", "v", "e", "r">>
      [] s = "wan" -> <<"w", "a", "n">>
      [] s = "traceroute_server.txt" ->
            <<"t", "r", "a", "c", "e", "r", "o", "u", "t", "e", "_",
              "s", "e", "r", "v", "e", "r", ".", "t", "x", "t">>
      [] s = "traceroute_wan.txt" ->
            <<"t", "r", "a", "c", "e", "r", "o", "u", "t", "e", "_",
              "w", "a", "n", ".", "t", "x", "t">>
      [] s = "traceroute_lan.txt" ->
            <<"t", "r", "a", "c", "e", "r", "o", "u", "t", "e", "_",
              "l", "a", "n", ".", "t", "x", "t">>
      [] s = "192.168.1.1" ->
            <<"1", "9", "2", ".", "1", "6", "8", ".", "1", ".", "1">>
      [] s = "192.168.1.50" ->
            <<"1", "9", "2", ".", "1", "6", "8", ".", "1", ".", "5",
              "0">>
      [] s = "10.0.0.1" ->
            <<"1", "0", ".", "0", ".", "0", ".", "1">>
      [] s = "10.0.0.11" ->
            <<"1", "0", ".", "0", ".", "0", ".", "1", "1">>
      [] s = "172.16.0.9" ->
            <<"1", "7", "2", ".", "1", "6", ".", "0", ".", "9">>
      [] s = "172.32.0.9" ->
            <<"1", "7", "2", ".", "3", "2", ".", "0", ".", "9">>
      [] s = "172.32.0.1" ->
            <<"1", "7", "2", ".", "3", "2", ".", "0", ".", "1">>
      [] s = "203.0.113.5" ->
            <<"2", "0", "3", ".", "0", ".", "1", "1", "3", ".", "5">>
      [] s = "100.64.0.1" ->
            <<"1", "0", "0", ".", "6", "4", ".", "0", ".", "1">>
      [] s = "anything" ->
            <<"a", "n", "y", "t", "h", "i", "n", "g">>
      [] s = "viasat-gw" ->
            <<"v", "i", "a", "s", "a", "t", "-", "g", "w">>
      [] s = "Gateway-1" ->
            <<"G", "a", "t", "e", "w", "a", "y", "-", "1">>
      [] s = "mesh-radio-sat" ->
            <<"m", "e", "s", "h", "-", "r", "a", "d", "i", "o", "-",
              "s", "a", "t">>
      [] s = "SILVUS" ->
            <<"S", "I", "L", "V", "U", "S">>
      [] s = "comcast-isp" ->
            <<"c", "o", "m", "c", "a", "s", "t", "-", "i", "s", "p">>
      [] s = "Seattle" ->
            <<"S", "e", "a", "t", "t", "l", "e">>
      [] s = "satellite.isp" ->
            <<"s", "a", "t", "e", "l", "l", "i", "t", "e", ".", "i",
              "s", "p">>
      [] s = "traceroute to " ->
            <<"t", "r", "a", "c", "e", "r", "o", "u", "t", "e", " ",
              "t", "o", " ">>
      [] s = "traceroute to 8.8.8.8 (8.8.8.8), 30 hops max\n" ->
            <<"t", "r", "a", "c", "e", "r", "o", "u", "t", "e", " ",
              "t", "o", " ", "8", ".", "8", ".", "8", ".", "8", " ",
              "(", "8", ".", "8", ".", "8", ".", "8", ")", ",", " ",
              "3", "0", " ", "h", "o", "p", "s", " ", "m", "a", "x",
              "\n">>
      [] s = " 1  gateway (10.0.0.1)  1.234 ms  1.456 ms  1.789 ms\n" ->
            <<" ", "1", " ", " ", "g", "a", "t", "e", "w", "a", "y",
              " ", "(", "1", "0", ".", "0", ".", "0", ".", "1", ")",
              " ", " ", "1", ".", "2", "3", "4", " ", "m", "s", " ",
              " ", "1", ".", "4", "5", "6", " ", "m", "s", " ", " ",
              "1", ".", "7", "8", "9", " ", "m", "s", "\n">>
      [] s = " 2  * * *\n" ->
            <<" ", "2", " ", " ", "*", " ", "*", " ", "*", "\n">>
      [] s = " 1  dns.google (8.8.8.8)  9.5 ms\n" ->
            <<" ", "1", " ", " ", "d", "n", "s", ".", "g", "o", "o",
              "g", "l", "e", " ", "(", "8", ".", "8", ".", "8", ".",
              "8", ")", " ", " ", "9", ".", "5", " ", "m", "s", "\n">>
      [] s = "\n" ->
            <<"\n">>
      [] s = "3 hops done\n" ->
            <<"3", " ", "h", "o", "p", "s", " ", "d", "o", "n", "e",
              "\n">>
      [] s = " 4  bad (10.0.0.9)  1.2.3 ms\n" ->
            <<" ", "4", " ", " ", "b", "a", "d", " ", "(", "1", "0",
              ".", "0", ".", "0", ".", "9", ")", " ", " ", "1", ".",
              "2", ".", "3", " ", "m", "s", "\n">>
      [] s = " 3  gw (10.0.0.1)  * 5.1 ms\n" ->
            <<" ", "3", " ", " ", "g", "w", " ", "(", "1", "0", ".",
              "0", ".", "0", ".", "1", ")", " ", " ", "*", " ", "5",
              ".", "1", " ", "m", "s", "\n">>
      [] s = " 3  * gw (10.0.0.1)  5.1 ms\n" ->
            <<" ", "3", " ", " ", "*", " ", "g", "w", " ", "(", "1",
              "0", ".", "0", ".", "0", ".", "1", ")", " ", " ", "5",
              ".", "1", " ", "m", "s", "\n">>
      [] s = "* gw" ->
            <<"*", " ", "g", "w">>
      [] s = "bad" ->
            <<"b", "a", "d">>
      [] s = "10.0.0.9" ->
            <<"1", "0", ".", "0", ".", "0", ".", "9">>
      [] s = "gw" ->
            <<"g", "w">>
      [] s = "artifacts_" ->
            <<"a", "r", "t", "i", "f", "a", "c", "t", "s", "_">>
      [] s = "traceroute_" ->
            <<"t", "r", "a", "c", "e", "r", "o", "u", "t", "e", "_">>
      [] s = ".txt" ->
            <<".", "t", "x", "t">>
      [] s = "artifacts_SiteA" ->
            <<"a", "r", "t", "i", "f", "a", "c", "t", "s", "_", "S",
              "i", "t", "e", "A">>
      [] s = "artifacts_server" ->
            <<"a", "r", "t", "i", "f", "a", "c", "t", "s", "_", "s",
              "e", "r", "v", "e", "r">>
      [] s = "logs" ->
            <<"l", "o", "g", "s">>
      [] s = "traceroute_Server_WAN.txt" ->
            <<"t", "r", "a", "c", "e", "r", "o", "u", "t", "e", "_",
              "S", "e", "r", "v", "e", "r", "_", "W", "A", "N", ".",
              "t", "x", "t">>
      [] s = "traceroute_wan_server.txt" ->
            <<"t", "r", "a", "c", "e", "r", "o", "u", "t", "e", "_",
              "w", "a", "n", "_", "s", "e", "r", "v", "e", "r", ".",
              "t", "x", "t">>
      [] s = "ping.txt" ->
            <<"p", "i", "n", "g", ".", "t", "x", "t">>
      [] s = "SITEA" ->
            <<"S", "I", "T", "E", "A">>
      [] s = "zzz" ->
            <<"z", "z", "z">>

UpperCase ==
    <<"A", "B", "C", "D", "E", "F", "G", "H", "I", "J", "K", "L", "M",
      "N", "O", "P", "Q", "R", "S", "T", "U", "V", "W", "X", "Y", "Z">>

LowerCase ==
    <<"a", "b", "c", "d", "e", "f", "g", "h", "i", "j", "k", "l", "m",
      "n", "o", "p", "q", "r", "s", "t", "u", "v", "w", "x", "y", "z">>

\* str.lower() on one character
LowerOf ==
    [c \in Range(UpperCase) |->
        LowerCase[CHOOSE j \in DOMAIN UpperCase : UpperCase[j] = c]]

\* str.lower() on a character sequence
Lower(cs) ==
    [i \in DOMAIN cs |-> IF cs[i] \in DOMAIN LowerOf THEN LowerOf[cs[i]] ELSE cs[i]]

\* str.startswith
StartsWith(cs, prefix) ==
    /\ Len(prefix) <= Len(cs)
    /\ SubSeq(cs, 1, Len(prefix)) = prefix

\* str.endswith
EndsWith(cs, suffix) ==
    /\ Len(suffix) <= Len(cs)
    /\ SubSeq(cs, Len(cs) - Len(suffix) + 1, Len(cs)) = suffix

\* the substring test  needle in cs
Contains(cs, needle) ==
    \E i \in 1..(Len(cs) - Len(needle) + 1) :
        \A k \in 1..Len(needle) : cs[i + k - 1] = needle[k]

\* any(x in hostname_lower for x in [...])
AnyIn(needles, cs) ==
    \E x \in needles : Contains(cs, Chars(x))

(***************************************************************************)
(* classify_node                                                           *)
(***************************************************************************)
\* classify_node whose last resort is 'unknown'
classify_node_UnknownDefault(ip, hostname) ==
    IF ip = "timeout" THEN "unknown"
    ELSE IF \/ StartsWith(Chars(ip), Chars("192.168."))
            \/ StartsWith(Chars(ip), Chars("10."))
            \/ StartsWith(Chars(ip), Chars("172."))
    THEN IF \/ Contains(Lower(Chars(hostname)), Chars("gateway"))
            \/ EndsWith(Chars(ip), Chars(".1"))
         THEN "gateway"
         ELSE "lan"
    ELSE LET hostname_lower == Lower(Chars(hostname)) IN
         IF AnyIn({"silvus", "radio", "mesh"}, hostname_lower) THEN "radio"
         ELSE IF AnyIn({"viasat", "satellite", "sat"}, hostname_lower) THEN "satellite"
         ELSE IF AnyIn({"isp", "comcast", "att", "verizon", "spectrum"}, hostname_lower)
              THEN "isp"
         ELSE "unknown"

classify_node(ip, hostname) ==
    IF ip = "timeout" THEN "unknown"
    ELSE IF \/ StartsWith(Chars(ip), Chars("192.168."))
            \/ StartsWith(Chars(ip), Chars("10."))
            \/ StartsWith(Chars(ip), Chars("172."))
    THEN IF \/ Contains(Lower(Chars(hostname)), Chars("gateway"))
            \/ EndsWith(Chars(ip), Chars(".1"))
         THEN "gateway"
         ELSE "lan"
    ELSE LET hostname_lower == Lower(Chars(hostname)) IN
         IF AnyIn({"silvus", "radio", "mesh"}, hostname_lower) THEN "radio"
         ELSE IF AnyIn({"viasat", "satellite", "sat"}, hostname_lower) THEN "satellite"
         ELSE IF AnyIn({"isp", "comcast", "att", "verizon", "spectrum"}, hostname_lower)
              THEN "isp"
         ELSE "wan"

(***************************************************************************)
(* Inputs of build_network_graph: the records analyze_all_traceroutes      *)
(* builds from parse_traceroute_file's output.                             *)
(***************************************************************************)
\* (hostname, ip, rtt) of the reply lines the explored files contain
ReplyLines ==
    { [hostname |-> "gateway",    ip |-> "10.0.0.5", rtt_ms |-> 1],
      [hostname |-> "host",       ip |-> "10.0.0.5", rtt_ms |-> 2],
      [hostname |-> "dns.google", ip |-> "8.8.8.8",  rtt_ms |-> 3] }

\* the hop record parse_traceroute_file appends for a reply line
ReplyHop(n, line) ==
    [hop |-> n, hostname |-> line.hostname, ip |-> line.ip, rtt_ms |-> line.rtt_ms]

\* the hop record parse_traceroute_file appends for a " N  * * *" line
TimeoutHop(n) ==
    [hop |-> n, hostname |-> "timeout", ip |-> "timeout", rtt_ms |-> None]

\* the hop records a line numbered n can yield (the explored files number
\* their hop lines 1, 2, ...)
HopRecords(n) ==
    {TimeoutHop(n)} \cup {ReplyHop(n, line) : line \in ReplyLines}

\* the traceroute files of the explored artifact tree, in the order
\* sorted(glob.glob(pattern)) lists them, each with the target its first
\* line declares
Files ==
    << [artifact |-> "artifacts_a", filename |-> "traceroute_server.txt",
        target |-> NoTarget],
       [artifact |-> "artifacts_a", filename |-> "traceroute_wan.txt",
        target |-> "8.8.8.8"],
       [artifact |-> "artifacts_b", filename |-> "traceroute_lan.txt",
        target |-> "example.com"] >>

\* TargetType that looks for 'wan' first
TargetType_WanFirst(filename) ==
    IF Contains(Chars(filename), Chars("wan")) THEN "wan"
    ELSE IF Contains(Chars(filename), Chars("server")) THEN "server"
    ELSE "unknown"

\* 'server' in filename / 'wan' in filename
TargetType(filename) ==
    IF Contains(Chars(filename), Chars("server")) THEN "server"
    ELSE IF Contains(Chars(filename), Chars("wan")) THEN "wan"
    ELSE "unknown"

\* one element of the list analyze_all_traceroutes returns
TraceResult(file, hops) ==
    [artifact |-> file.artifact, filename |-> file.filename,
     target_type |-> TargetType(file.filename),
     target |-> file.target, hops |-> hops]

(***************************************************************************)
(* networkx.DiGraph as build_network_graph uses it: nodes, the 'paths'     *)
(* attribute of every edge, and the attributes of the nodes that have any. *)
(***************************************************************************)
EmptyGraph ==
    [nodes |-> {}, paths |-> EmptyMap, attrs |-> EmptyMap]

has_edge(g, u, v) ==
    <<u, v>> \in DOMAIN g.paths

\* add_edge that makes a node of the destination only
add_edge_DestinationOnly(g, u, v) ==
    [g EXCEPT !.nodes = @ \cup {v},
              !.paths = IF <<u, v>> \in DOMAIN @
                        THEN [@ EXCEPT ![<<u, v>>] = <<>>]
                        ELSE @ @@ (<<u, v>> :> <<>>)]

\* G.add_edge(u, v, paths=[]): adds both nodes, creates the edge or resets
\* the attribute of an existing one
add_edge(g, u, v) ==
    [g EXCEPT !.nodes = @ \cup {u, v},
              !.paths = IF <<u, v>> \in DOMAIN @
                        THEN [@ EXCEPT ![<<u, v>>] = <<>>]
                        ELSE @ @@ (<<u, v>> :> <<>>)]

\* EnsureEdge without the has_edge test: the edge is added anew every time
EnsureEdge_Reset(g, u, v) ==
    add_edge(g, u, v)

\* if not G.has_edge(u, v): G.add_edge(u, v, paths=[])
EnsureEdge(g, u, v) ==
    IF ~has_edge(g, u, v) THEN add_edge(g, u, v) ELSE g

\* AppendPath that records the first traversal of an edge only
AppendPath_FirstTraversalOnly(g, u, v, entry) ==
    IF g.paths[<<u, v>>] = <<>>
    THEN [g EXCEPT !.paths[<<u, v>>] = Append(@, entry)]
    ELSE g

\* AppendPath that keeps one entry per artifact and target type
AppendPath_OncePerRun(g, u, v, entry) ==
    IF \E i \in DOMAIN g.paths[<<u, v>>] :
          /\ g.paths[<<u, v>>][i].artifact = entry.artifact
          /\ g.paths[<<u, v>>][i].target_type = entry.target_type
    THEN g
    ELSE [g EXCEPT !.paths[<<u, v>>] = Append(@, entry)]

\* G[u][v]['paths'].append(entry)
AppendPath(g, u, v, entry) ==
    [g EXCEPT !.paths[<<u, v>>] = Append(@, entry)]

(***************************************************************************)
(* The body of build_network_graph, on a fold state                        *)
(*   st = [G, node_info, source].                                          *)
(***************************************************************************)
\* TrackNode that stores the hostname of every hop record (last write wins)
TrackNode_HostnameOverwrite(info, hop) ==
    IF hop.ip \notin DOMAIN info
    THEN info @@ (hop.ip :> [hostname |-> hop.hostname,
                             type |-> classify_node(hop.ip, hop.hostname),
                             rtts |-> <<>>])
    ELSE [info EXCEPT ![hop.ip].hostname = hop.hostname]

\* TrackNode that classifies the node again at every hop record
TrackNode_Reclassify(info, hop) ==
    IF hop.ip \notin DOMAIN info
    THEN info @@ (hop.ip :> [hostname |-> hop.hostname,
                             type |-> classify_node(hop.ip, hop.hostname),
                             rtts |-> <<>>])
    ELSE [info EXCEPT ![hop.ip].type = classify_node(hop.ip, hop.hostname)]

\* if ip not in node_info: node_info[ip] = {...}
TrackNode(info, hop) ==
    IF hop.ip \notin DOMAIN info
    THEN info @@ (hop.ip :> [hostname |-> hop.hostname,
                             type |-> classify_node(hop.ip, hop.hostname),
                             rtts |-> <<>>])
    ELSE info

\* RecordRtt that keeps only the first observation of a node
RecordRtt_FirstOnly(info, hop) ==
    IF hop.rtt_ms # None /\ info[hop.ip].rtts = <<>>
    THEN [info EXCEPT ![hop.ip].rtts = Append(@, hop.rtt_ms)]
    ELSE info

\* if hop['rtt_ms'] is not None: node_info[ip]['rtts'].append(...)
RecordRtt(info, hop) ==
    IF hop.rtt_ms # None
    THEN [info EXCEPT ![hop.ip].rtts = Append(@, hop.rtt_ms)]
    ELSE info

\* the traversal entry of a hop transition
HopEntry(res, hop) ==
    [artifact |-> res.artifact, target_type |-> res.target_type,
     hop_num |-> hop.hop, rtt_ms |-> hop.rtt_ms]

\* TargetEntry that numbers the target after the hops that replied
TargetEntry_RepliesOnly(res) ==
    [artifact |-> res.artifact, target_type |-> res.target_type,
     hop_num |-> Len(SelectSeq(res.hops, LAMBDA h : h.ip # "timeout")) + 1,
     rtt_ms |-> None]

\* the traversal entry of the edge to the declared target
TargetEntry(res) ==
    [artifact |-> res.artifact, target_type |-> res.target_type,
     hop_num |-> Len(res.hops) + 1, rtt_ms |-> None]

\* FoldReply that draws every edge from the origin
FoldReply_FromClient(st, res, hop) ==
    [G         |-> AppendPath(EnsureEdge(st.G, "client", hop.ip),
                              "client", hop.ip, HopEntry(res, hop)),
     node_info |-> RecordRtt(TrackNode(st.node_info, hop), hop),
     source    |-> hop.ip]

\* the body of the hop loop below the timeout test
FoldReply(st, res, hop) ==
    [G         |-> AppendPath(EnsureEdge(st.G, st.source, hop.ip),
                              st.source, hop.ip, HopEntry(res, hop)),
     node_info |-> RecordRtt(TrackNode(st.node_info, hop), hop),
     source    |-> hop.ip]

\* FoldHop that puts the cursor back on the origin at a timeout
FoldHop_GapToClient(st, res, hop) ==
    IF hop.ip = "timeout" THEN [st EXCEPT !.source = "client"]
    ELSE FoldReply(st, res, hop)

\* FoldHop without the timeout test
FoldHop_NoSkip(st, res, hop) ==
    FoldReply(st, res, hop)

\* FoldHop that moves the cursor onto a timeout hop
FoldHop_AdvanceOnTimeout(st, res, hop) ==
    IF hop.ip = "timeout" THEN [st EXCEPT !.source = hop.ip]
    ELSE FoldReply(st, res, hop)

\* one iteration of  for hop in result['hops']
FoldHop(st, res, hop) ==
    IF hop.ip = "timeout" THEN st ELSE FoldReply(st, res, hop)

\* FoldTarget that adds no edge to the declared target
FoldTarget_NoTargetEdge(st, res) ==
    st

\* FoldTarget without the test for hops
FoldTarget_NoHopsTest(st, res) ==
    IF res.target # NoTarget
    THEN [st EXCEPT !.G = AppendPath(EnsureEdge(st.G, st.source, res.target),
                                     st.source, res.target, TargetEntry(res))]
    ELSE st

\* if result['hops'] and result['target']: ...
FoldTarget(st, res) ==
    IF res.hops # <<>> /\ res.target # NoTarget
    THEN [st EXCEPT !.G = AppendPath(EnsureEdge(st.G, st.source, res.target),
                                     st.source, res.target, TargetEntry(res))]
    ELSE st

\* StartResult that puts the cursor on the origin for the first run only
StartResult_FirstRunOnly(st) ==
    IF st.G = EmptyGraph THEN [st EXCEPT !.source = "client"] ELSE st

\* StartResult that leaves the cursor where the previous run ended
StartResult_KeepCursor(st) ==
    st

\* source = 'client' at the head of each iteration of  for result in ...
StartResult(st) ==
    [st EXCEPT !.source = "client"]

\* the attributes of one node in the loop  for node in G.nodes();
\* avg_rtt is kept as the exact quotient num/den of sum(rtts) / len(rtts)
NodeAttributes(node, info) ==
    IF node = "client"
    THEN [type |-> "client", hostname |-> "Test Computer",
          avg_rtt |-> [num |-> 0, den |-> 1]]
    ELSE LET rtts == info[node].rtts
             sum  == LET RECURSIVE S(_)
                         S(i) == IF i = 0 THEN 0 ELSE S(i - 1) + rtts[i]
                     IN  S(Len(rtts))
         IN  [type |-> info[node].type, hostname |-> info[node].hostname,
              avg_rtt |-> IF rtts # <<>> THEN [num |-> sum, den |-> Len(rtts)]
                          ELSE [num |-> 0, den |-> 1]]

\* AddNodeAttributes that gives the nodes without node_info the defaults
AddNodeAttributes_AllNodes(g, info) ==
    [g EXCEPT !.attrs =
        [node \in g.nodes |->
            IF node = "client" \/ node \in DOMAIN info
            THEN NodeAttributes(node, info)
            ELSE [type |-> "unknown", hostname |-> node,
                  avg_rtt |-> [num |-> 0, den |-> 1]]]]

\* for node in G.nodes(): set type, hostname, avg_rtt
AddNodeAttributes(g, info) ==
    [g EXCEPT !.attrs =
        [node \in {n \in g.nodes : n = "client" \/ n \in DOMAIN info} |->
            NodeAttributes(node, info)]]

\* for hop in result['hops'], from the i-th hop on
RECURSIVE FoldHops(_, _, _)
FoldHops(st, res, i) ==
    IF i > Len(res.hops) THEN st
    ELSE FoldHops(FoldHop(st, res, res.hops[i]), res, i + 1)

\* one iteration of  for result in traceroute_results
FoldResult(st, res) ==
    FoldTarget(FoldHops(StartResult(st), res, 1), res)

\* for result in traceroute_results, from the i-th result on
RECURSIVE FoldResults(_, _, _)
FoldResults(st, results, i) ==
    IF i > Len(results) THEN st
    ELSE FoldResults(FoldResult(st, results[i]), results, i + 1)

\* the graph build_network_graph returns for a list of results
build_network_graph(results) ==
    LET st == FoldResults([G |-> EmptyGraph, node_info |-> EmptyMap, source |-> "client"],
                          results, 1)
    IN  AddNodeAttributes(st.G, st.node_info)

(***************************************************************************)
(* generate_traceroute_report: the "Network Nodes" section.                *)
(***************************************************************************)
\* Appearances that counts the traversals of the incoming edges
Appearances_PerTraversal(g, node) ==
    LET into == {e \in DOMAIN g.paths : e[2] = node}
        RECURSIVE Total(_)
        Total(es) == IF es = {} THEN 0
                     ELSE LET e == CHOOSE e \in es : TRUE
                          IN  Len(g.paths[e]) + Total(es \ {e})
    IN  Total(into)

\* sum(1 for u, v in G.edges() if v == node)
Appearances(g, node) ==
    Cardinality({e \in DOMAIN g.paths : e[2] = node})

\* what the section shows for one node: node_data.get(...) with its
\* defaults, and the appearance count
NodeDetail(g, node) ==
    LET has == node \in DOMAIN g.attrs
    IN  [type        |-> IF has THEN g.attrs[node].type ELSE "unknown",
         hostname    |-> IF has THEN g.attrs[node].hostname ELSE node,
         avg_rtt     |-> IF has THEN g.attrs[node].avg_rtt ELSE [num |-> 0, den |-> 1],
         appearances |-> Appearances(g, node)]

\* for node in sorted(G.nodes()): if node == 'client': continue
NodeDetails(g) ==
    [node \in g.nodes \ {"client"} |-> NodeDetail(g, node)]

(***************************************************************************)
(* The state machine: build_network_graph stepping through its loops.      *)
(***************************************************************************)
VARIABLES
    traceroute_results,  \* the results folded so far, in fold order
    result,              \* the result being folded, with the hops consumed so far
    pc,                  \* where the program stands
    source,              \* the cursor
    G,                   \* the graph
    node_info,           \* {ip: {'hostname', 'type', 'rtts'}}
    report,              \* the node details of each report generated, in order
    call,                \* a call of classify_node: arguments and return value
    parse,               \* a call of parse_traceroute_file
    scan,                \* a call of analyze_all_traceroutes
    run                  \* a run of the network test suite

vars ==
    <<traceroute_results, result, pc, source, G, node_info, report, call, parse, scan,
      run>>

\* the calls that are not under way
NoCall ==
    [ip |-> "", hostname |-> "", role |-> ""]

NoParse ==
    [file   |-> [readable |-> TRUE, lines |-> <<>>],
     lines  |-> <<>>,
     i      |-> 0,
     result |-> [target |-> NoTarget, hops |-> <<>>]]

NoScan ==
    [tree        |-> EmptyMap,    \* the files under artifacts_root
     name_filter |-> "",
     files       |-> <<>>,        \* sorted(glob.glob(pattern))
     i           |-> 0,
     results     |-> <<>>,
     parsed      |-> <<>>]        \* the paths parse_traceroute_file was given

\* what the steps of build_network_graph and of the report leave alone
otherCalls ==
    <<call, parse, scan, run>>

NoRun ==
    [entry           |-> "",      \* the file that asks for run_tests
     server          |-> "",
     duration        |-> 0,
     udp_target_mbps |-> 0,
     line            |-> 0,       \* the line of runner.py being executed
     bound           |-> {},      \* the names runner.py has imported
     steps           |-> <<>>,    \* the test steps executed
     result          |-> {},      \* the keys of the result returned
     outcome         |-> ""]

NoResult ==
    [artifact |-> "", filename |-> "", target_type |-> "",
     target |-> NoTarget, hops |-> <<>>]

\* the position in Files of the last result folded, 0 before the first
LastFile ==
    IF traceroute_results = <<>> THEN 0
    ELSE LET r == traceroute_results[Len(traceroute_results)]
         IN  CHOOSE j \in DOMAIN Files :
                Files[j].artifact = r.artifact /\ Files[j].filename = r.filename

FoldState ==
    [G |-> G, node_info |-> node_info, source |-> source]

\* the hop records consumed so far, over all results
RECURSIVE TotalHops(_)
TotalHops(rs) ==
    IF rs = <<>> THEN 0 ELSE Len(Head(rs).hops) + TotalHops(Tail(rs))

Init ==
    /\ traceroute_results = <<>>
    /\ result = NoResult
    /\ pc = "for_result"
    /\ source = "client"
    /\ G = EmptyGraph
    /\ node_info = EmptyMap
    /\ report = <<>>
    /\ call = NoCall
    /\ parse = NoParse
    /\ scan = NoScan
    /\ run = NoRun

\* for result in traceroute_results: source = 'client'
BeginResult ==
    /\ pc = "for_result"
    /\ \E j \in (LastFile + 1)..Len(Files) : result' = TraceResult(Files[j], <<>>)
    /\ source' = StartResult(FoldState).source
    /\ pc' = "for_hop"
    /\ UNCHANGED <<traceroute_results, G, node_info, report, otherCalls>>

\* for hop in result['hops']: one iteration
ProcessHop ==
    /\ pc = "for_hop"
    /\ TotalHops(traceroute_results) + Len(result.hops) < MaxTotalHops
    /\ \E hop \in HopRecords(Len(result.hops) + 1) :
          LET st == FoldHop(FoldState, result, hop) IN
          /\ result' = [result EXCEPT !.hops = Append(@, hop)]
          /\ G' = st.G
          /\ node_info' = st.node_info
          /\ source' = st.source
    /\ UNCHANGED <<traceroute_results, pc, report, otherCalls>>

\* the hops are exhausted: the edge to the declared target
EndResult ==
    /\ pc = "for_hop"
    /\ G' = FoldTarget(FoldState, result).G
    /\ traceroute_results' = Append(traceroute_results, result)
    /\ result' = NoResult
    /\ pc' = "for_result"
    /\ UNCHANGED <<source, node_info, report, otherCalls>>

\* the results are exhausted: node attributes, return G
Finalize ==
    /\ pc = "for_result"
    /\ G' = AddNodeAttributes(G, node_info)
    /\ pc' = "done"
    /\ UNCHANGED <<traceroute_results, result, source, node_info, report, otherCalls>>

\* GenerateReport that fills in the attributes it finds missing
\* (setdefault in place of get)
GenerateReport_SetDefault ==
    /\ pc \in {"done", "reported"}
    /\ Len(report) < MaxReports
    /\ report' = Append(report, NodeDetails(G))
    /\ G' = [G EXCEPT !.attrs =
                 [node \in G.nodes |->
                     IF node \in DOMAIN G.attrs THEN G.attrs[node]
                     ELSE [type |-> "unknown", hostname |-> node,
                           avg_rtt |-> [num |-> 0, den |-> 1]]]]
    /\ pc' = "reported"
    /\ UNCHANGED <<traceroute_results, result, source, node_info, otherCalls>>

\* generate_traceroute_report(traceroute_results, G, outdir) on the graph
\* returned, once more
GenerateReport ==
    /\ pc \in {"done", "reported"}
    /\ Len(report) < MaxReports
    /\ report' = Append(report, NodeDetails(G))
    /\ pc' = "reported"
    /\ UNCHANGED <<traceroute_results, result, source, G, node_info, otherCalls>>

Next ==
    \/ BeginResult
    \/ ProcessHop
    \/ EndResult
    \/ Finalize
    \/ GenerateReport

Spec ==
    Init /\ [][Next]_vars

(***************************************************************************)
(* What the input says, read off the results without folding them.         *)
(***************************************************************************)
\* the node the run stands on after these hops: the last hop that replied
RECURSIVE LastReached(_)
LastReached(hops) ==
    IF hops = <<>> THEN "client"
    ELSE IF hops[Len(hops)].ip # "timeout" THEN hops[Len(hops)].ip
    ELSE LastReached(SubSeq(hops, 1, Len(hops) - 1))

\* the hops of a run that replied, in order
Replies(hops) ==
    SelectSeq(hops, LAMBDA h : h.ip # "timeout")

HasTargetEdge(res) ==
    res.hops # <<>> /\ res.target # NoTarget

\* the nodes a run visits, in order
Walk(res) ==
    <<"client">> \o [i \in 1..Len(Replies(res.hops)) |-> Replies(res.hops)[i].ip]
                 \o (IF HasTargetEdge(res) THEN <<res.target>> ELSE <<>>)

\* how often a run goes from u directly to v
Crossings(res, u, v) ==
    LET w == Walk(res)
    IN  Cardinality({i \in 1..(Len(w) - 1) : w[i] = u /\ w[i + 1] = v})

RECURSIVE SumOver(_, _)
SumOver(f, dom) ==
    IF dom = {} THEN 0
    ELSE LET x == CHOOSE x \in dom : TRUE IN f[x] + SumOver(f, dom \ {x})

\* all hop records of the results, in fold order
RECURSIVE AllHops(_)
AllHops(rs) ==
    IF rs = <<>> THEN <<>> ELSE Head(rs).hops \o AllHops(Tail(rs))

HopIps(rs) ==
    {h.ip : h \in Range(AllHops(rs))} \ {"timeout"}

\* the first and the last hop record that carries ip
FirstHopOf(rs, ip) ==
    LET hs == AllHops(rs)
    IN  hs[CHOOSE i \in DOMAIN hs :
              hs[i].ip = ip /\ \A j \in 1..(i - 1) : hs[j].ip # ip]

LastHopOf(rs, ip) ==
    LET hs == AllHops(rs)
    IN  hs[CHOOSE i \in DOMAIN hs :
              hs[i].ip = ip /\ \A j \in (i + 1)..Len(hs) : hs[j].ip # ip]

PathsOf(g, e) ==
    IF e \in DOMAIN g.paths THEN g.paths[e] ELSE <<>>

\* seq2 is seq1 with one element appended
AppendedOne(seq1, seq2) ==
    /\ Len(seq2) = Len(seq1) + 1
    /\ SubSeq(seq2, 1, Len(seq1)) = seq1

SameBag(seq1, seq2) ==
    \A x \in Range(seq1) \cup Range(seq2) :
        Cardinality({i \in DOMAIN seq1 : seq1[i] = x})
      = Cardinality({i \in DOMAIN seq2 : seq2[i] = x})

ListPermutations(n) ==
    {f \in [1..n -> 1..n] : \A i, j \in 1..n : f[i] = f[j] => i = j}

Permuted(rs, f) ==
    [i \in 1..Len(rs) |-> rs[f[i]]]

\* nodes reachable from "client" along the edges of g
RECURSIVE ReachFrom(_, _)
ReachFrom(g, seen) ==
    LET more == seen \cup {e[2] : e \in {d \in DOMAIN g.paths : d[1] \in seen}}
    IN  IF more = seen THEN seen ELSE ReachFrom(g, more)

\* this step is an iteration of the hop loop; the hop it consumes
HopStep ==
    pc = "for_hop" /\ Len(result'.hops) = Len(result.hops) + 1

ConsumedHop ==
    result'.hops[Len(result'.hops)]

\* this step leaves the hop loop of a run
EndStep ==
    pc = "for_hop" /\ pc' = "for_result"

\* this step consumes a hop that replied, right after one or more timeouts
GapStep ==
    /\ HopStep
    /\ ConsumedHop.ip # "timeout"
    /\ result.hops # <<>>
    /\ result.hops[Len(result.hops)].ip = "timeout"

\* the state machine computes the function
FoldIsFunction ==
    pc = "done" => G = build_network_graph(traceroute_results)

(***************************************************************************)
(* C1, as claimed: the hop after a timeout gap adds no traversal to the    *)
(* edge from the node before the gap (or from "client") to itself.         *)
(***************************************************************************)
C1_GapNotBridged ==
    [][GapStep =>
          LET e == <<LastReached(result.hops), ConsumedHop.ip>>
          IN  PathsOf(G', e) = PathsOf(G, e)]_vars

(***************************************************************************)
(* C1, amended: the cursor stays on the last node that replied while       *)
(* timeouts are skipped, so the first hop B that replies after a gap       *)
(* appends exactly its own traversal entry to the edge (A, B), A being the *)
(* node before the gap, or "client" when nothing replied before it.        *)
(***************************************************************************)
C1_GapBridged ==
    [][GapStep =>
          LET e == <<LastReached(result.hops), ConsumedHop.ip>>
          IN  /\ e \in DOMAIN G'.paths
              /\ G'.paths[e] = Append(PathsOf(G, e), HopEntry(result, ConsumedHop))
              /\ source' = ConsumedHop.ip]_vars

C1_Witness ==
    LET n == Len(result.hops) IN
    /\ pc = "for_hop"
    /\ n >= 3
    /\ result.hops[n - 2].ip # "timeout"
    /\ result.hops[n - 1].ip = "timeout"
    /\ result.hops[n].ip \notin {"timeout", result.hops[n - 2].ip}
    /\ <<result.hops[n - 2].ip, result.hops[n].ip>> \in DOMAIN G.paths

(***************************************************************************)
(* C2: a hop record with ip "timeout" changes neither the graph, nor       *)
(* node_info, nor the cursor; and "timeout" is never put into the graph:   *)
(* it is no key of node_info, no node and no end of an edge, and the       *)
(* cursor never stands on it.                                              *)
(***************************************************************************)
C2_TimeoutHopChangesNothing ==
    /\ [][(HopStep /\ ConsumedHop.ip = "timeout")
              => UNCHANGED <<G, node_info, source>>]_vars
    /\ [](/\ "timeout" \notin DOMAIN node_info
          /\ "timeout" \notin G.nodes
          /\ source # "timeout"
          /\ \A e \in DOMAIN G.paths : e[1] # "timeout" /\ e[2] # "timeout")

C2_Witness ==
    /\ pc = "for_hop"
    /\ Len(result.hops) >= 2
    /\ result.hops[Len(result.hops)].ip = "timeout"
    /\ result.hops[Len(result.hops) - 1].ip # "timeout"
    /\ source = result.hops[Len(result.hops) - 1].ip
    /\ G.nodes # {}

(***************************************************************************)
(* C3, as claimed: the hostname of every hop node of the finalized graph   *)
(* is the hostname of the last hop record that carries its IP.             *)
(***************************************************************************)
C3_HostnameLastWins ==
    pc = "done" =>
        \A ip \in HopIps(traceroute_results) :
            G.attrs[ip].hostname = LastHopOf(traceroute_results, ip).hostname

(***************************************************************************)
(* C3, amended: hostname is first-write-wins.  The hostname of every hop   *)
(* node of the finalized graph is the hostname of the first hop record (in *)
(* fold order) that carries its IP; later hostnames are not retained.      *)
(***************************************************************************)
C3_HostnameFirstWins ==
    pc = "done" =>
        \A ip \in HopIps(traceroute_results) :
            /\ ip \in DOMAIN G.attrs
            /\ G.attrs[ip].hostname = FirstHopOf(traceroute_results, ip).hostname

C3_Witness ==
    /\ pc = "done"
    /\ \E ip \in HopIps(traceroute_results) :
          /\ FirstHopOf(traceroute_results, ip).hostname
                # LastHopOf(traceroute_results, ip).hostname
          /\ G.attrs[ip].hostname = FirstHopOf(traceroute_results, ip).hostname

(***************************************************************************)
(* C4, as claimed: the role of every hop node of the finalized graph is    *)
(* classify_node of its IP and the last hostname seen for that IP.         *)
(***************************************************************************)
C4_RoleFromLastHostname ==
    pc = "done" =>
        \A ip \in HopIps(traceroute_results) :
            G.attrs[ip].type
                = classify_node(ip, LastHopOf(traceroute_results, ip).hostname)

(***************************************************************************)
(* C4, amended: the role of every hop node of the finalized graph is       *)
(* classify_node of its IP and the hostname of the first hop record that   *)
(* carries that IP: the role is fixed at the first observation.            *)
(***************************************************************************)
C4_RoleFromFirstHostname ==
    pc = "done" =>
        \A ip \in HopIps(traceroute_results) :
            /\ ip \in DOMAIN G.attrs
            /\ G.attrs[ip].type
                  = classify_node(ip, FirstHopOf(traceroute_results, ip).hostname)

C4_Witness ==
    /\ pc = "done"
    /\ \E ip \in HopIps(traceroute_results) :
          /\ classify_node(ip, FirstHopOf(traceroute_results, ip).hostname)
                # classify_node(ip, LastHopOf(traceroute_results, ip).hostname)
          /\ G.attrs[ip].type
                = classify_node(ip, FirstHopOf(traceroute_results, ip).hostname)

(***************************************************************************)
(* C5: folding a permutation of the list.                                  *)
(***************************************************************************)
\* same nodes, same edges, same traversal entries on every edge up to
\* order, same average RTT on every node
SameStructure(g1, g2) ==
    /\ g1.nodes = g2.nodes
    /\ DOMAIN g1.paths = DOMAIN g2.paths
    /\ \A e \in DOMAIN g1.paths : SameBag(g1.paths[e], g2.paths[e])
    /\ DOMAIN g1.attrs = DOMAIN g2.attrs
    /\ \A n \in DOMAIN g1.attrs : g1.attrs[n].avg_rtt = g2.attrs[n].avg_rtt

SameRoles(g1, g2) ==
    \A n \in DOMAIN g1.attrs \cap DOMAIN g2.attrs : g1.attrs[n].type = g2.attrs[n].type

\* C5, as claimed: a permutation of the list yields the same structure and
\* the same role on every node.
C5_OrderKeepsStructureAndRoles ==
    pc = "done" =>
        \A f \in ListPermutations(Len(traceroute_results)) :
            LET g == build_network_graph(Permuted(traceroute_results, f))
            IN  SameStructure(G, g) /\ SameRoles(G, g)

\* C5, amended: a permutation of the list yields the same node set, the
\* same edge set, the same multiset of traversal entries on every edge and
\* the same multiset of RTTs (the same exact mean) on every node; the
\* hostname and the role of a node may differ, both being fixed by the
\* first hop record that carries the IP.
C5_OrderKeepsStructure ==
    pc = "done" =>
        \A f \in ListPermutations(Len(traceroute_results)) :
            SameStructure(G, build_network_graph(Permuted(traceroute_results, f)))

C5_Witness ==
    /\ pc = "done"
    /\ Len(traceroute_results) = 2
    /\ LET g == build_network_graph(<<traceroute_results[2], traceroute_results[1]>>)
       IN  /\ SameStructure(G, g)
           /\ \E n \in DOMAIN G.attrs :
                 /\ G.attrs[n].type # g.attrs[n].type
                 /\ G.attrs[n].hostname # g.attrs[n].hostname
           /\ \E e \in DOMAIN G.paths : G.paths[e] # g.paths[e]

(***************************************************************************)
(* C6: at every point of the fold and in the finalized graph, every node   *)
(* other than "client" is reachable from "client" along directed edges.    *)
(***************************************************************************)
C6_Reachable ==
    G.nodes \ {"client"} \subseteq ReachFrom(G, {"client"})

C6_Witness ==
    /\ pc = "done"
    /\ Len(traceroute_results) = 2
    /\ \E r \in Range(traceroute_results) :
          /\ HasTargetEdge(r)
          /\ \E i \in DOMAIN r.hops : r.hops[i].ip = "timeout"
          /\ Len(Replies(r.hops)) >= 1
    /\ Cardinality(G.nodes) >= 3
    /\ G.nodes \ {"client"} \subseteq ReachFrom(G, {"client"})

C8_OneEntryPerRun ==
    pc = "done" =>
        \A e \in DOMAIN G.paths :
            Len(G.paths[e])
              = Cardinality({i \in DOMAIN traceroute_results :
                                Crossings(traceroute_results[i], e[1], e[2]) > 0})

(***************************************************************************)
(* C8, amended: the traversal list of every edge (u, v) has one entry per  *)
(* crossing: its length is the number of times the runs go from u directly *)
(* to v, hop transitions and target edges together, so that a run which    *)
(* crosses the pair k times contributes k entries.                         *)
(***************************************************************************)
C8_OneEntryPerCrossing ==
    pc = "done" =>
        /\ \A e \in DOMAIN G.paths :
              Len(G.paths[e])
                = SumOver([i \in DOMAIN traceroute_results |->
                              Crossings(traceroute_results[i], e[1], e[2])],
                          DOMAIN traceroute_results)
        /\ \A i \in DOMAIN traceroute_results :
              LET w == Walk(traceroute_results[i])
              IN  \A k \in 1..(Len(w) - 1) : <<w[k], w[k + 1]>> \in DOMAIN G.paths

C8_Witness ==
    /\ pc = "done"
    /\ \E e \in DOMAIN G.paths :
          \E i \in DOMAIN traceroute_results :
              /\ Crossings(traceroute_results[i], e[1], e[2]) = 2
              /\ Len(G.paths[e]) >= 2

(***************************************************************************)
(* C9: no step of the fold removes an edge or touches the entries an edge  *)
(* already has: a step leaves every existing traversal list unchanged or   *)
(* appends one entry to it, it changes at most one list, and a transition  *)
(* over a pair appends its entry {artifact, target_type, hop_num, rtt_ms}  *)
(* to the list of that pair.                                               *)
(***************************************************************************)
C9_EdgesGrowByAppend ==
    [][/\ \A e \in DOMAIN G.paths :
             /\ e \in DOMAIN G'.paths
             /\ \/ G'.paths[e] = G.paths[e]
                \/ AppendedOne(G.paths[e], G'.paths[e])
       /\ Cardinality({e \in DOMAIN G'.paths : G'.paths[e] # PathsOf(G, e)}) <= 1
       /\ (HopStep /\ ConsumedHop.ip # "timeout") =>
             G'.paths[<<source, ConsumedHop.ip>>]
                = Append(PathsOf(G, <<source, ConsumedHop.ip>>),
                         HopEntry(result, ConsumedHop))]_vars

C9_Witness ==
    \E e \in DOMAIN G.paths :
        /\ Len(G.paths[e]) >= 2
        /\ G.paths[e][1].artifact # G.paths[e][2].artifact

(***************************************************************************)
(* C10: the step that leaves the hop loop of a run appends exactly one     *)
(* entry, with hop_num = len(hops) + 1 (timeouts counted) and no RTT, to   *)
(* the edge (cursor, target), the cursor being the last hop that replied   *)
(* or "client", if and only if the run has hops and a declared target;     *)
(* otherwise it leaves the graph as it is.                                 *)
(***************************************************************************)
C10_TargetEdge ==
    [][EndStep =>
          IF result.hops # <<>> /\ result.target # NoTarget
          THEN LET e == <<LastReached(result.hops), result.target>>
               IN  /\ G'.nodes = G.nodes \cup {e[1], e[2]}
                   /\ DOMAIN G'.paths = DOMAIN G.paths \cup {e}
                   /\ G'.paths[e]
                         = Append(PathsOf(G, e),
                                  [artifact |-> result.artifact,
                                   target_type |-> result.target_type,
                                   hop_num |-> Len(result.hops) + 1,
                                   rtt_ms |-> None])
                   /\ \A d \in DOMAIN G.paths \ {e} : G'.paths[d] = G.paths[d]
          ELSE G' = G]_vars

C10_Witness ==
    /\ pc = "for_result"
    /\ traceroute_results # <<>>
    /\ LET r == traceroute_results[Len(traceroute_results)]
           e == <<LastReached(r.hops), r.target>>
       IN  /\ HasTargetEdge(r)
           /\ Len(r.hops) > Len(Replies(r.hops))
           /\ Replies(r.hops) # <<>>
           /\ e \in DOMAIN G.paths
           /\ G.paths[e][Len(G.paths[e])].hop_num = Len(r.hops) + 1

(***************************************************************************)
(* C11: in the graph returned, the RTTs recorded for a hop node are, as a  *)
(* multiset, the rtt_ms values of all the hop records of all the runs that *)
(* carry its IP and an RTT, and its avg_rtt is their sum divided by their  *)
(* number, or 0 when there is none.                                        *)
(***************************************************************************)
\* the RTTs observed at ip, in the order of the hop records
Observed(rs, ip) ==
    LET obs == SelectSeq(AllHops(rs), LAMBDA h : h.ip = ip /\ h.rtt_ms # None)
    IN  [i \in 1..Len(obs) |-> obs[i].rtt_ms]

C11_RttsAreAllObservations ==
    pc = "done" =>
        \A node \in HopIps(traceroute_results) :
            LET obs == Observed(traceroute_results, node)
            IN  /\ SameBag(node_info[node].rtts, obs)
                /\ G.attrs[node].avg_rtt
                      = IF obs = <<>> THEN [num |-> 0, den |-> 1]
                        ELSE [num |-> SumOver(obs, DOMAIN obs), den |-> Len(obs)]

C11_Witness ==
    /\ pc = "done"
    /\ \E node \in HopIps(traceroute_results) :
           /\ Cardinality(Range(node_info[node].rtts)) > 1
           /\ G.attrs[node].avg_rtt.den > 1
           /\ Cardinality({i \in DOMAIN traceroute_results :
                  \E h \in Range(traceroute_results[i].hops) : h.ip = node}) > 1

(***************************************************************************)
(* C20: the appearance count the report shows for a node other than        *)
(* "client" is the number of distinct nodes from which some run stepped    *)
(* directly to it, however often the runs did so.                          *)
(***************************************************************************)
\* the nodes from which some run goes directly to node
Predecessors(rs, node) ==
    {u \in UNION {Range(Walk(r)) : r \in Range(rs)} :
        \E r \in Range(rs) : Crossings(r, u, node) > 0}

Ips ==
    {"timeout", "192.168.1.1", "192.168.1.50", "10.0.0.5", "10.0.0.1",
     "10.0.0.11", "172.16.0.9", "172.32.0.9", "172.32.0.1", "8.8.8.8",
     "203.0.113.5", "100.64.0.1"}

Hostnames ==
    {"anything", "dns.google", "viasat-gw", "Gateway-1", "mesh-radio-sat",
     "SILVUS", "comcast-isp", "host", "Seattle", "satellite.isp"}

\* the fold at rest, while another function is called on its own
FoldIdle ==
    /\ traceroute_results = <<>>
    /\ result = NoResult
    /\ source = "client"
    /\ G = EmptyGraph
    /\ node_info = EmptyMap
    /\ report = <<>>

InitClassify ==
    /\ pc = "classify_node"
    /\ call \in [ip : Ips, hostname : Hostnames, role : {""}]
    /\ parse = NoParse
    /\ scan = NoScan
    /\ run = NoRun
    /\ FoldIdle

\* classify_node(ip, hostname) returns
ClassifyNode ==
    /\ pc = "classify_node"
    /\ call' = [call EXCEPT !.role = classify_node(call.ip, call.hostname)]
    /\ pc' = "classified"
    /\ UNCHANGED <<traceroute_results, result, source, G, node_info, report,
                   parse, scan, run>>

NextClassify ==
    ClassifyNode

SpecClassify ==
    InitClassify /\ [][NextClassify]_vars

\* a call of classify_node or a run of build_network_graph and the report
InitRoles ==
    InitClassify \/ Init

NextRoles ==
    \/ ClassifyNode
    \/ Next

SpecRoles ==
    InitRoles /\ [][NextRoles]_vars

\* the numbers between the dots of an address
DigitValue(c) ==
    CASE c = "0" -> 0 [] c = "1" -> 1 [] c = "2" -> 2 [] c = "3" -> 3
      [] c = "4" -> 4 [] c = "5" -> 5 [] c = "6" -> 6 [] c = "7" -> 7
      [] c = "8" -> 8 [] c = "9" -> 9

RECURSIVE OctetsFrom(_, _, _)
OctetsFrom(cs, i, acc) ==
    IF i > Len(cs) THEN <<acc>>
    ELSE IF cs[i] = "." THEN <<acc>> \o OctetsFrom(cs, i + 1, 0)
    ELSE OctetsFrom(cs, i + 1, 10 * acc + DigitValue(cs[i]))

Octets(ip) ==
    OctetsFrom(Chars(ip), 1, 0)

\* 10.0.0.0/8, 172.16.0.0/12, 192.168.0.0/16
IsPrivate(ip) ==
    /\ ip # "timeout"
    /\ LET o == Octets(ip)
       IN  \/ o[1] = 10
           \/ o[1] = 172 /\ o[2] \in 16..31
           \/ o[1] = 192 /\ o[2] = 168

(***************************************************************************)
(* C12: classify_node returns the role of the first rule that matches, in  *)
(* the order: ip "timeout" -> unknown; private ip -> gateway when the host *)
(* name contains "gateway" in any case or the last octet is 1, else lan;   *)
(* radio words -> radio; satellite words -> satellite; ISP words -> isp;   *)
(* otherwise wan.                                                          *)
(***************************************************************************)
FirstMatch(ip, hostname) ==
    LET hostname_lower == Lower(Chars(hostname)) IN
    IF ip = "timeout" THEN "unknown"
    ELSE IF IsPrivate(ip)
    THEN IF \/ Contains(hostname_lower, Chars("gateway"))
            \/ Octets(ip)[Len(Octets(ip))] = 1
         THEN "gateway" ELSE "lan"
    ELSE IF AnyIn({"silvus", "radio", "mesh"}, hostname_lower) THEN "radio"
    ELSE IF AnyIn({"viasat", "satellite", "sat"}, hostname_lower) THEN "satellite"
    ELSE IF AnyIn({"isp", "comcast", "att", "verizon", "spectrum"}, hostname_lower)
         THEN "isp"
    ELSE "wan"

C12_FirstMatchWins ==
    pc = "classified" => call.role = FirstMatch(call.ip, call.hostname)

(***************************************************************************)
(* C13: classify_node returns gateway or lan exactly when the address lies *)
(* in 10.0.0.0/8, 172.16.0.0/12 or 192.168.0.0/16.                         *)
(***************************************************************************)
C13_LanExactlyWhenPrivate ==
    pc = "classified" =>
        (call.role \in {"gateway", "lan"} <=> IsPrivate(call.ip))

(***************************************************************************)
(* C14: classify_node returns one of lan, gateway, radio, satellite, isp,  *)
(* wan, unknown, never client, and unknown only for ip "timeout"; in the   *)
(* graph returned, only the node "client" has the type client.             *)
(***************************************************************************)
Roles ==
    {"lan", "gateway", "radio", "satellite", "isp", "wan", "unknown"}

Space ==
    {" ", "\t", "\n", "\r", "\f"}

Digits ==
    {"0", "1", "2", "3", "4", "5", "6", "7", "8", "9"}

DigitsDot ==
    Digits \cup {"."}

\* the end of the longest run of characters of set that starts at i
SkipIn(cs, i, set) ==
    CHOOSE j \in i..(Len(cs) + 1) :
        /\ \A k \in i..(j - 1) : cs[k] \in set
        /\ j = Len(cs) + 1 \/ cs[j] \notin set

\* the end of the longest run of characters outside set that starts at i
SkipNotIn(cs, i, set) ==
    CHOOSE j \in i..(Len(cs) + 1) :
        /\ \A k \in i..(j - 1) : cs[k] \notin set
        /\ j = Len(cs) + 1 \/ cs[j] \in set

\* str.strip()
Strip(cs) ==
    LET a == SkipIn(cs, 1, Space)
    IN  IF a > Len(cs) THEN <<>>
        ELSE LET z == CHOOSE j \in a..Len(cs) :
                          /\ cs[j] \notin Space
                          /\ \A k \in (j + 1)..Len(cs) : cs[k] \in Space
             IN  SubSeq(cs, a, z)

\* the string a character sequence spells
Words ==
    {"timeout", "gateway", "dns.google", "* gw", "gw", "bad", "10.0.0.1",
     "8.8.8.8", "10.0.0.9"}

Str(cs) ==
    CHOOSE s \in Words : Chars(s) = cs

\* int() of a run of digits
RECURSIVE int(_)
int(cs) ==
    IF cs = <<>> THEN 0
    ELSE 10 * int(SubSeq(cs, 1, Len(cs) - 1)) + DigitValue(cs[Len(cs)])

\* RTTs are kept in thousandths of a millisecond
PerMs ==
    1000

\* float() of a run of digits and dots raises ValueError
FloatRaises(cs) ==
    \/ Cardinality({i \in DOMAIN cs : cs[i] = "."}) > 1
    \/ \A i \in DOMAIN cs : cs[i] = "."

\* float() of a run of digits and dots with at most three decimals
float(cs) ==
    LET dot      == SkipIn(cs, 1, Digits)
        decimals == SubSeq(cs, dot + 1, Len(cs))
        padded   == decimals \o [i \in 1..(3 - Len(decimals)) |-> "0"]
    IN  int(SubSeq(cs, 1, dot - 1)) * PerMs + int(padded)

NoMatch ==
    [matched |-> FALSE]

\* TRACEROUTE_LINE_RE.match(line):
\*   ^\s*(\d+)\s+([^\(]+?)\s*\(([0-9\.]+)\)\s+([\d\.]+)\s+ms
ReplyMatch(cs) ==
    LET a == SkipIn(cs, 1, Space)
        b == SkipIn(cs, a, Digits)
        c == SkipIn(cs, b, Space)
        p == SkipNotIn(cs, b, {"("})
        q == SkipIn(cs, p + 1, DigitsDot)
        r == SkipIn(cs, q + 1, Space)
        t == SkipIn(cs, r, DigitsDot)
        u == SkipIn(cs, t, Space)
    IN  IF /\ b > a
           /\ c > b
           /\ p <= Len(cs) /\ p - b >= 2
           /\ q > p + 1 /\ q <= Len(cs) /\ cs[q] = ")"
           /\ r > q + 1
           /\ t > r
           /\ u > t
           /\ u + 1 <= Len(cs) /\ cs[u] = "m" /\ cs[u + 1] = "s"
        THEN [matched |-> TRUE,
              group1  |-> SubSeq(cs, a, b - 1),
              group2  |-> IF c < p
                          THEN SubSeq(cs, c, c + Len(Strip(SubSeq(cs, c, p - 1))) - 1)
                          ELSE SubSeq(cs, p - 1, p - 1),
              group3  |-> SubSeq(cs, p + 1, q - 1),
              group4  |-> SubSeq(cs, r, t - 1)]
        ELSE NoMatch

\* re.match(r'^\s*(\d+)\s+\*', line)
TimeoutMatch(cs) ==
    LET a == SkipIn(cs, 1, Space)
        b == SkipIn(cs, a, Digits)
        c == SkipIn(cs, b, Space)
    IN  IF b > a /\ c > b /\ c <= Len(cs) /\ cs[c] = "*"
        THEN [matched |-> TRUE, group1 |-> SubSeq(cs, a, b - 1)]
        ELSE NoMatch

\* re.search(r'traceroute to ([^\s,]+)', first_line)
TargetSearch(cs) ==
    LET lead == Chars("traceroute to ")
        at   == {i \in 1..Len(cs) :
                    /\ i + Len(lead) <= Len(cs)
                    /\ SubSeq(cs, i, i + Len(lead) - 1) = lead
                    /\ cs[i + Len(lead)] \notin Space \cup {","}}
    IN  IF at = {} THEN NoMatch
        ELSE LET i == CHOOSE i \in at : \A j \in at : i <= j
                 z == SkipNotIn(cs, i + Len(lead), Space \cup {","})
             IN  [matched |-> TRUE, group1 |-> SubSeq(cs, i + Len(lead), z - 1)]

\* LineHops that does not know the timeout lines
LineHops_SkipTimeouts(line) ==
    LET cs    == Chars(line)
        match == ReplyMatch(cs)
    IN  IF match.matched
        THEN IF FloatRaises(match.group4)
             THEN [raises |-> TRUE, hops |-> <<>>]
             ELSE [raises |-> FALSE,
                   hops |-> <<[hop      |-> int(match.group1),
                               hostname |-> Str(Strip(match.group2)),
                               ip       |-> Str(match.group3),
                               rtt_ms   |-> float(match.group4)]>>]
        ELSE [raises |-> FALSE, hops |-> <<>>]

\* the body of  for line in lines[1:] : the records the line appends, or
\* the ValueError of float()
LineHops(line) ==
    LET cs    == Chars(line)
        match == ReplyMatch(cs)
    IN  IF match.matched
        THEN IF FloatRaises(match.group4)
             THEN [raises |-> TRUE, hops |-> <<>>]
             ELSE [raises |-> FALSE,
                   hops |-> <<[hop      |-> int(match.group1),
                               hostname |-> Str(Strip(match.group2)),
                               ip       |-> Str(match.group3),
                               rtt_ms   |-> float(match.group4)]>>]
        ELSE IF "*" \in Range(cs) /\ TimeoutMatch(cs).matched
        THEN [raises |-> FALSE,
              hops |-> <<[hop      |-> int(TimeoutMatch(cs).group1),
                          hostname |-> "timeout",
                          ip       |-> "timeout",
                          rtt_ms   |-> None]>>]
        ELSE [raises |-> FALSE, hops |-> <<>>]

\* result['target'] after the first line
TargetOf(first_line) ==
    LET target_match == TargetSearch(Chars(first_line))
    IN  IF target_match.matched THEN Str(target_match.group1) ELSE NoTarget

\* for line in lines[1:], from the i-th line on
RECURSIVE ParseLines(_, _, _)
ParseLines(lines, i, hops) ==
    IF i > Len(lines) THEN [raises |-> FALSE, hops |-> hops]
    ELSE LET more == LineHops(lines[i])
         IN  IF more.raises THEN [raises |-> TRUE, hops |-> <<>>]
             ELSE ParseLines(lines, i + 1, hops \o more.hops)

\* what a call of parse_traceroute_file does: it raises, or it returns
\* result
Raised ==
    [raises |-> TRUE, result |-> [target |-> NoTarget, hops |-> <<>>]]

parse_traceroute_file(file) ==
    IF ~file.readable THEN Raised
    ELSE IF file.lines = <<>>
    THEN [raises |-> FALSE, result |-> [target |-> NoTarget, hops |-> <<>>]]
    ELSE LET body == ParseLines(file.lines, 2, <<>>)
         IN  IF body.raises THEN Raised
             ELSE [raises |-> FALSE,
                   result |-> [target |-> TargetOf(file.lines[1]),
                               hops   |-> body.hops]]

(***************************************************************************)
(* parse_traceroute_file called on its own, stepping through its lines.    *)
(***************************************************************************)
MaxLines ==
    3

\* the lines the explored files are made of
Lines ==
    {"traceroute to 8.8.8.8 (8.8.8.8), 30 hops max\n",
     " 1  gateway (10.0.0.1)  1.234 ms  1.456 ms  1.789 ms\n",
     " 2  * * *\n",
     " 1  dns.google (8.8.8.8)  9.5 ms\n",
     "\n",
     "3 hops done\n",
     " 4  bad (10.0.0.9)  1.2.3 ms\n",
     " 3  gw (10.0.0.1)  * 5.1 ms\n",
     " 3  * gw (10.0.0.1)  5.1 ms\n"}

\* a path open() or readlines() fails on: a directory, a file without read
\* permission, bytes that do not decode
Unreadable ==
    [readable |-> FALSE, lines |-> <<>>]

TextFiles ==
    {[readable |-> TRUE, lines |-> ls] :
        ls \in UNION {[1..n -> Lines] : n \in 0..MaxLines}}

InitParse ==
    /\ pc = "parse_open"
    /\ parse \in {[NoParse EXCEPT !.file = f] : f \in TextFiles \cup {Unreadable}}
    /\ call = NoCall
    /\ scan = NoScan
    /\ run = NoRun
    /\ FoldIdle

notParse ==
    <<traceroute_results, result, source, G, node_info, report, call, scan, run>>

\* with open(filepath, 'r') as f: lines = f.readlines()
ReadLines ==
    /\ pc = "parse_open"
    /\ IF parse.file.readable
       THEN /\ parse' = [parse EXCEPT !.lines = parse.file.lines]
            /\ pc' = "parse_first_line"
       ELSE /\ pc' = "parse_raised"
            /\ UNCHANGED parse
    /\ UNCHANGED notParse

\* if not lines: return result;  otherwise the target of the first line
FirstLine ==
    /\ pc = "parse_first_line"
    /\ IF parse.lines = <<>>
       THEN /\ pc' = "parse_returned"
            /\ UNCHANGED parse
       ELSE /\ parse' = [parse EXCEPT !.result.target = TargetOf(parse.lines[1]),
                                      !.i = 2]
            /\ pc' = "parse_lines"
    /\ UNCHANGED notParse

\* one iteration of  for line in lines[1:]
ParseLine ==
    /\ pc = "parse_lines"
    /\ parse.i <= Len(parse.lines)
    /\ LET more == LineHops(parse.lines[parse.i])
       IN  IF more.raises
           THEN /\ pc' = "parse_raised"
                /\ UNCHANGED parse
           ELSE /\ parse' = [parse EXCEPT !.result.hops = @ \o more.hops,
                                          !.i = @ + 1]
                /\ UNCHANGED pc
    /\ UNCHANGED notParse

\* return result
ParseReturn ==
    /\ pc = "parse_lines"
    /\ parse.i > Len(parse.lines)
    /\ pc' = "parse_returned"
    /\ UNCHANGED <<parse, notParse>>

NextParse ==
    \/ ReadLines
    \/ FirstLine
    \/ ParseLine
    \/ ParseReturn

SpecParse ==
    InitParse /\ [][NextParse]_vars

\* the steps compute parse_traceroute_file
ParseIsFunction ==
    /\ pc = "parse_returned" =>
           parse_traceroute_file(parse.file) = [raises |-> FALSE, result |-> parse.result]
    /\ pc = "parse_raised" => parse_traceroute_file(parse.file).raises

(***************************************************************************)
(* C15: parse_traceroute_file appends, line by line after the first, one   *)
(* hop record for a line that is a reply (hop number, host name, address,  *)
(* first RTT) or a timeout (hop number, "timeout", "timeout", no RTT), and *)
(* nothing for any other line; it merges nothing, so that what it returns  *)
(* is the records of its lines in file order.  It fails to return only on  *)
(* an unreadable file or a reply line whose RTT is not a number.           *)
(***************************************************************************)
\* what a reader takes each explored line for
Reply(hop, hostname, ip, rtt) ==
    <<[hop |-> hop, hostname |-> hostname, ip |-> ip, rtt_ms |-> rtt]>>

Meaning(line) ==
    CASE line = " 1  gateway (10.0.0.1)  1.234 ms  1.456 ms  1.789 ms\n" ->
            Reply(1, "gateway", "10.0.0.1", 1234)
      [] line = " 1  dns.google (8.8.8.8)  9.5 ms\n" ->
            Reply(1, "dns.google", "8.8.8.8", 9500)
      [] line = " 3  * gw (10.0.0.1)  5.1 ms\n" ->
            Reply(3, "* gw", "10.0.0.1", 5100)
      [] line = " 2  * * *\n" ->
            Reply(2, "timeout", "timeout", None)
      [] OTHER -> <<>>

NotANumber ==
    {" 4  bad (10.0.0.9)  1.2.3 ms\n"}

RECURSIVE Meanings(_, _)
Meanings(lines, i) ==
    IF i > Len(lines) THEN <<>>
    ELSE Meaning(lines[i]) \o Meanings(lines, i + 1)

LineStep ==
    pc = "parse_lines" /\ parse.i <= Len(parse.lines)

NoFilter ==
    "None"

\* the characters of the explored paths, in code point order
Ascii ==
    <<".", "/", "0", "1", "2", "3", "4", "5", "6", "7", "8", "9">>
        \o UpperCase \o <<"_">> \o LowerCase

Ord ==
    [c \in Range(Ascii) |-> CHOOSE j \in DOMAIN Ascii : Ascii[j] = c]

\* os.path.join(dirname, filename) below artifacts_root
PathChars(path) ==
    Chars(path.dir) \o <<"/">> \o Chars(path.name)

\* PathBefore that compares without regard to case
PathBefore_IgnoreCase(a, b) ==
    LET x == Lower(PathChars(a))
        y == Lower(PathChars(b))
    IN  \E k \in 1..(Len(y)) :
           /\ \A j \in 1..(k - 1) : j <= Len(x) /\ x[j] = y[j]
           /\ k > Len(x) \/ (k - 1 < Len(x) /\ Ord[x[k]] < Ord[y[k]])

\* a < b on str
PathBefore(a, b) ==
    LET x == PathChars(a)
        y == PathChars(b)
    IN  \E k \in 1..(Len(y)) :
           /\ \A j \in 1..(k - 1) : j <= Len(x) /\ x[j] = y[j]
           /\ k > Len(x) \/ (k - 1 < Len(x) /\ Ord[x[k]] < Ord[y[k]])

\* sorted(...)
RECURSIVE sorted(_)
sorted(paths) ==
    IF paths = {} THEN <<>>
    ELSE LET first == CHOOSE a \in paths :
                          \A b \in paths \ {a} : PathBefore(a, b)
         IN  <<first>> \o sorted(paths \ {first})

\* glob.glob(os.path.join(artifacts_root, "artifacts_*", "traceroute_*.txt"))
glob(tree) ==
    {path \in DOMAIN tree :
        /\ StartsWith(Chars(path.dir), Chars("artifacts_"))
        /\ StartsWith(Chars(path.name), Chars("traceroute_"))
        /\ EndsWith(Chars(path.name), Chars(".txt"))
        /\ Len(Chars(path.name)) >= Len(Chars("traceroute_")) + Len(Chars(".txt"))}

\* Excluded that compares the names as they are written
Excluded_CaseSensitive(name_filter, artifact_name) ==
    /\ name_filter \notin {NoFilter, ""}
    /\ ~Contains(Chars(artifact_name), Chars(name_filter))

\* if name_filter and name_filter.lower() not in artifact_name.lower()
Excluded(name_filter, artifact_name) ==
    /\ name_filter \notin {NoFilter, ""}
    /\ ~Contains(Lower(Chars(artifact_name)), Lower(Chars(name_filter)))

\* the files of the explored trees, and what each may hold
Paths ==
    {[dir |-> "artifacts_SiteA",  name |-> "traceroute_Server_WAN.txt"],
     [dir |-> "artifacts_SiteA",  name |-> "traceroute_wan_server.txt"],
     [dir |-> "artifacts_server", name |-> "traceroute_wan.txt"],
     [dir |-> "artifacts_SiteA",  name |-> "ping.txt"],
     [dir |-> "logs",             name |-> "traceroute_server.txt"]}

Empty ==
    [readable |-> TRUE, lines |-> <<>>]

Typical ==
    [readable |-> TRUE,
     lines |-> <<"traceroute to 8.8.8.8 (8.8.8.8), 30 hops max\n",
                 " 1  gateway (10.0.0.1)  1.234 ms  1.456 ms  1.789 ms\n",
                 " 2  * * *\n">>]

NoHopLines ==
    [readable |-> TRUE, lines |-> <<"\n", "3 hops done\n">>]

BadRtt ==
    [readable |-> TRUE,
     lines |-> <<"traceroute to 8.8.8.8 (8.8.8.8), 30 hops max\n",
                 " 4  bad (10.0.0.9)  1.2.3 ms\n">>]

Contents(path) ==
    IF path.name = "ping.txt" \/ path.dir = "logs" THEN {Typical}
    ELSE {Unreadable, Empty, Typical, NoHopLines, BadRtt}

Trees ==
    UNION {{tree \in [some -> {Unreadable, Empty, Typical, NoHopLines, BadRtt}] :
               \A path \in some : tree[path] \in Contents(path)} :
           some \in SUBSET Paths}

Filters ==
    {NoFilter, "", "SITEA", "server", "zzz"}

InitAnalyze ==
    /\ pc = "analyze_start"
    /\ scan \in {[NoScan EXCEPT !.tree = tree, !.name_filter = name_filter] :
                     tree \in Trees, name_filter \in Filters}
    /\ call = NoCall
    /\ parse = NoParse
    /\ run = NoRun
    /\ FoldIdle

notScan ==
    <<result, source, G, node_info, report, call, parse, run>>

\* results = [];  sorted(glob.glob(pattern))
AnalyzeStart ==
    /\ pc = "analyze_start"
    /\ scan' = [scan EXCEPT !.files = sorted(glob(scan.tree)), !.i = 1]
    /\ pc' = "analyze_files"
    /\ UNCHANGED <<traceroute_results, notScan>>

\* one iteration of  for filepath in sorted(glob.glob(pattern))
AnalyzeFile ==
    /\ pc = "analyze_files"
    /\ scan.i <= Len(scan.files)
    /\ LET filepath      == scan.files[scan.i]
           artifact_name == filepath.dir
           filename      == filepath.name
       IN  IF Excluded(scan.name_filter, artifact_name)
           THEN /\ scan' = [scan EXCEPT !.i = @ + 1]
                /\ UNCHANGED pc
           ELSE LET trace_data == parse_traceroute_file(scan.tree[filepath])
                IN  IF trace_data.raises
                    THEN /\ scan' = [scan EXCEPT !.parsed = Append(@, filepath)]
                         /\ pc' = "analyze_raised"
                    ELSE /\ scan' =
                               [scan EXCEPT
                                   !.parsed = Append(@, filepath),
                                   !.results =
                                       Append(@, [artifact    |-> artifact_name,
                                                  filepath    |-> filepath,
                                                  target_type |-> TargetType(filename),
                                                  target      |-> trace_data.result.target,
                                                  hops        |-> trace_data.result.hops]),
                                   !.i = @ + 1]
                         /\ UNCHANGED pc
    /\ UNCHANGED <<traceroute_results, notScan>>

\* return results;  main: traceroute_results = analyze_all_traceroutes(...)
AnalyzeReturn ==
    /\ pc = "analyze_files"
    /\ scan.i > Len(scan.files)
    /\ traceroute_results' = scan.results
    /\ pc' = "analyze_returned"
    /\ UNCHANGED <<scan, notScan>>

\* main: if not traceroute_results: return;  otherwise on to
\* build_network_graph
MainAfterAnalyze ==
    /\ pc = "analyze_returned"
    /\ pc' = IF traceroute_results = <<>> THEN "main_returned"
             ELSE "main_build_network_graph"
    /\ UNCHANGED <<traceroute_results, scan, notScan>>

NextAnalyze ==
    \/ AnalyzeStart
    \/ AnalyzeFile
    \/ AnalyzeReturn
    \/ MainAfterAnalyze

SpecAnalyze ==
    InitAnalyze /\ [][NextAnalyze]_vars

(***************************************************************************)
(* What a reader of the explored trees expects, written down by hand.      *)
(***************************************************************************)
\* the files that match artifacts_*/traceroute_*.txt, in ascending path
\* order
MatchingInOrder ==
    <<[dir |-> "artifacts_SiteA",  name |-> "traceroute_Server_WAN.txt"],
      [dir |-> "artifacts_SiteA",  name |-> "traceroute_wan_server.txt"],
      [dir |-> "artifacts_server", name |-> "traceroute_wan.txt"]>>

\* the directory name contains the filter, whatever the case
Accepts(name_filter, dir) ==
    CASE name_filter = NoFilter -> TRUE
      [] name_filter = ""       -> TRUE
      [] name_filter = "SITEA"  -> dir = "artifacts_SiteA"
      [] name_filter = "server" -> dir = "artifacts_server"
      [] name_filter = "zzz"    -> FALSE

ExpectedType(name) ==
    CASE name = "traceroute_Server_WAN.txt" -> "unknown"
      [] name = "traceroute_wan_server.txt" -> "server"
      [] name = "traceroute_wan.txt"        -> "wan"

\* the files analyze_all_traceroutes is to report on
Expected(sc) ==
    SelectSeq(MatchingInOrder,
              LAMBDA path : /\ path \in DOMAIN sc.tree
                            /\ Accepts(sc.name_filter, path.dir))

ResultPaths(results) ==
    [i \in DOMAIN results |-> results[i].filepath]

(***************************************************************************)
(* C16: a file that is empty, unreadable or malformed never makes          *)
(* analyze_all_traceroutes raise; the list returned has for it an entry    *)
(* with no target and no hops.                                             *)
(***************************************************************************)
C16_BadFileIsSoftFailure ==
    /\ pc # "analyze_raised"
    /\ pc = "analyze_returned" =>
           \A path \in Range(Expected(scan)) :
               scan.tree[path] \in {Unreadable, Empty, NoHopLines, BadRtt} =>
                   \E i \in DOMAIN scan.results :
                       /\ scan.results[i].filepath = path
                       /\ scan.results[i].target = NoTarget
                       /\ scan.results[i].hops = <<>>

C18_TargetTypeFromFileName ==
    \A i \in DOMAIN scan.results :
        scan.results[i].target_type = ExpectedType(scan.results[i].filepath.name)

C18_Witness ==
    /\ pc = "analyze_returned"
    /\ [i \in DOMAIN scan.results |-> scan.results[i].target_type]
          = <<"unknown", "server", "wan">>

(***************************************************************************)
(* C19: with a name filter, only files of directories whose name contains  *)
(* the filter in any case are parsed and reported; with no filter or an    *)
(* empty one every matching file is.                                       *)
(***************************************************************************)
C19_FilterOnDirectoryName ==
    /\ \A i \in DOMAIN scan.parsed :
           Accepts(scan.name_filter, scan.parsed[i].dir)
    /\ \A i \in DOMAIN scan.results :
           Accepts(scan.name_filter, scan.results[i].artifact)
    /\ pc = "analyze_returned" =>
           /\ \A path \in Range(MatchingInOrder) :
                  (path \in DOMAIN scan.tree /\ Accepts(scan.name_filter, path.dir))
                      => path \in Range(scan.parsed)
           /\ scan.name_filter \in {NoFilter, ""} =>
                  Range(ResultPaths(scan.results))
                      = Range(MatchingInOrder) \cap DOMAIN scan.tree

C19_Witness ==
    /\ pc = "analyze_returned"
    /\ scan.name_filter = "SITEA"
    /\ Len(scan.results) = 2
    /\ [dir |-> "artifacts_server", name |-> "traceroute_wan.txt"] \in DOMAIN scan.tree
    /\ \A i \in DOMAIN scan.parsed : scan.parsed[i].dir = "artifacts_SiteA"

(***************************************************************************)
(* C21: generating the report leaves the nodes, the edges, the node        *)
(* attributes and the traversal lists of the graph as they are, and every  *)
(* report generated from the graph shows the same values.                  *)
(***************************************************************************)
ReportStep ==
    pc \in {"done", "reported"} /\ pc' = "reported"

C21_ReportLeavesGraphAlone ==
    /\ [][ReportStep =>
             /\ G' = G
             /\ node_info' = node_info
             /\ traceroute_results' = traceroute_results
             /\ report' = Append(report, NodeDetails(G))]_vars
    /\ [](\A i, j \in DOMAIN report : report[i] = report[j])
    /\ [](pc = "reported" => G = build_network_graph(traceroute_results))

C21_Witness ==
    /\ pc = "reported"
    /\ Len(report) = 2
    /\ report[1] = report[2]
    /\ \E node \in DOMAIN report[2] : report[2][node].avg_rtt.den > 1
    /\ \E node \in G.nodes : node \notin DOMAIN G.attrs

(***************************************************************************)
(* Two runs whose hop sequences share no IP.                               *)
(***************************************************************************)
RunIps(res) ==
    {h.ip : h \in Range(res.hops)} \ {"timeout"}

TwoDisjointRuns ==
    /\ pc = "done"
    /\ Len(traceroute_results) = 2
    /\ RunIps(traceroute_results[1]) \cap RunIps(traceroute_results[2]) = {}

\* the declared targets that get an edge and are no hop of any run
NewTargets(rs) ==
    {r.target : r \in {x \in Range(rs) : HasTargetEdge(x)}} \ HopIps(rs)

OutDegree(g, node) ==
    Cardinality({e \in DOMAIN g.paths : e[1] = node})

FirstHopReplied(res) ==
    res.hops # <<>> /\ res.hops[1].ip # "timeout"

C23_OutDegreeCountsFirstHops ==
    TwoDisjointRuns =>
        OutDegree(G, "client")
          = Cardinality({i \in 1..2 : FirstHopReplied(traceroute_results[i])})

(***************************************************************************)
(* C23, amended: after two runs that share no IP, the edges that leave     *)
(* "client" lead to the nodes the runs reach first: the first hop that     *)
(* replied, after any number of timeouts, or the declared target of a run  *)
(* all of whose hops timed out.  When no run is of the latter kind, their  *)
(* number is the number of runs with a hop that replied.                   *)
(***************************************************************************)
\* the nodes the runs reach first
FirstReached(rs) ==
    {Walk(r)[2] : r \in {x \in Range(rs) : Len(Walk(x)) > 1}}

C23_OutDegreeCountsFirstReached ==
    TwoDisjointRuns =>
        /\ {e[2] : e \in {d \in DOMAIN G.paths : d[1] = "client"}}
              = FirstReached(traceroute_results)
        /\ (\A i \in 1..2 : LET r == traceroute_results[i]
                            IN  HasTargetEdge(r) => Replies(r.hops) # <<>>)
              => OutDegree(G, "client")
                   = Cardinality({i \in 1..2 :
                         Replies(traceroute_results[i].hops) # <<>>})

C23_Witness ==
    /\ TwoDisjointRuns
    /\ \E i \in 1..2 :
           LET r == traceroute_results[i]
           IN  /\ r.hops # <<>>
               /\ r.hops[1].ip = "timeout"
               /\ Replies(r.hops) # <<>>
               /\ <<"client", Replies(r.hops)[1].ip>> \in DOMAIN G.paths
    /\ OutDegree(G, "client") = 2

(***************************************************************************)
(* C24, as claimed: every node of the graph returned has a type, a         *)
(* hostname and an avg_rtt: "client" the fixed ones, every other node,     *)
(* also one that is only the target of a run, a type among the roles.      *)
(***************************************************************************)
C24_EveryNodeHasAttributes ==
    pc = "done" =>
        \A node \in G.nodes :
            /\ node \in DOMAIN G.attrs
            /\ DOMAIN G.attrs[node] = {"type", "hostname", "avg_rtt"}
            /\ IF node = "client"
               THEN G.attrs[node] = [type |-> "client", hostname |-> "Test Computer",
                                     avg_rtt |-> [num |-> 0, den |-> 1]]
               ELSE G.attrs[node].type \in Roles

(***************************************************************************)
(* C24, amended: in the graph returned "client" has the fixed attributes   *)
(* and every node that is a hop of some run has a type among the roles, a  *)
(* hostname and an avg_rtt; a node that is only the target of a run has no *)
(* attributes, and the report shows it with type unknown, its key as its   *)
(* hostname and avg_rtt 0.                                                 *)
(***************************************************************************)
C24_HopNodesHaveAttributes ==
    /\ pc \in {"done", "reported"} =>
           \A node \in G.nodes :
               IF node = "client"
               THEN G.attrs[node] = [type |-> "client", hostname |-> "Test Computer",
                                     avg_rtt |-> [num |-> 0, den |-> 1]]
               ELSE IF node \in HopIps(traceroute_results)
               THEN /\ DOMAIN G.attrs[node] = {"type", "hostname", "avg_rtt"}
                    /\ G.attrs[node].type \in Roles \ {"unknown"}
                    /\ G.attrs[node].hostname
                          = FirstHopOf(traceroute_results, node).hostname
               ELSE node \notin DOMAIN G.attrs
    /\ \A i \in DOMAIN report :
           \A node \in DOMAIN report[i] \ HopIps(traceroute_results) :
               /\ report[i][node].type = "unknown"
               /\ report[i][node].hostname = node
               /\ report[i][node].avg_rtt = [num |-> 0, den |-> 1]

C24_Witness ==
    /\ pc = "reported"
    /\ "client" \in G.nodes
    /\ \E node \in G.nodes : node \in HopIps(traceroute_results)
    /\ \E node \in G.nodes \ {"client"} :
           /\ node \notin HopIps(traceroute_results)
           /\ node \notin DOMAIN G.attrs
           /\ report[1][node].type = "unknown"

(***************************************************************************)
(* The network test suite: tests/test_runner.py and src/cli.py ask         *)
(* src/runner.py for run_tests.                                            *)
(***************************************************************************)
\* the names the modules of the package define at their top level
Defines ==
    [m \in {"src.iperf", "src.ping", "src.wlan", "src.platform.macos"} |->
        CASE m = "src.iperf"          -> {"Iperf"}
          [] m = "src.ping"           -> {"PingTest"}
          [] m = "src.wlan"           -> {"WLANStats"}
          [] m = "src.platform.macos" -> {"MacOSPlatform"}]

\* the from-imports of runner.py, by line
RunnerImports ==
    [line \in 5..8 |->
        CASE line = 5 -> [module |-> "src.iperf",          name |-> "Iperf"]
          [] line = 6 -> [module |-> "src.ping",           name |-> "Ping"]
          [] line = 7 -> [module |-> "src.wlan",           name |-> "Wlan"]
          [] line = 8 -> [module |-> "src.platform.macos", name |-> "get_default_gateway"]]

\* the arguments the suite is asked to run with
Servers ==
    {"", "192.0.2.10"}

Durations ==
    {-1, 1, 30}

UdpTargets ==
    {-10, 1, 100}

Entries ==
    {"tests/test_runner.py", "src/cli.py"}

InitRunner ==
    /\ pc = "run_start"
    /\ run \in {[NoRun EXCEPT !.entry = e, !.server = s, !.duration = d,
                               !.udp_target_mbps = u] :
                    e \in Entries, s \in Servers, d \in Durations, u \in UdpTargets}
    /\ call = NoCall
    /\ parse = NoParse
    /\ scan = NoScan
    /\ FoldIdle

notRun ==
    <<traceroute_results, result, source, G, node_info, report, call, parse, scan>>

\* from src.runner import run_tests: runner.py starts to execute
EnterRunner ==
    /\ pc = "run_start"
    /\ run' = [run EXCEPT !.line = 5]
    /\ pc' = "import_runner"
    /\ UNCHANGED notRun

\* one from-import of runner.py: the name is bound, or ImportError
ImportLine ==
    /\ pc = "import_runner"
    /\ run.line \in DOMAIN RunnerImports
    /\ LET import == RunnerImports[run.line]
       IN  IF import.name \in Defines[import.module]
           THEN /\ run' = [run EXCEPT !.bound = @ \cup {import.name}, !.line = @ + 1]
                /\ UNCHANGED pc
           ELSE /\ run' = [run EXCEPT !.outcome = "ImportError"]
                /\ pc' = "import_failed"
    /\ UNCHANGED notRun

\* the ImportError leaves the entry file: the import stands at its top,
\* outside the try of cli.main and before any test method
ImportErrorPropagates ==
    /\ pc = "import_failed"
    /\ pc' = "run_finished"
    /\ UNCHANGED <<run, notRun>>

NextRunner ==
    \/ EnterRunner
    \/ ImportLine
    \/ ImportErrorPropagates

SpecRunner ==
    InitRunner /\ [][NextRunner]_vars

(***************************************************************************)
(* C25: a run with an empty server, a negative duration or a negative UDP  *)
(* target rate ends in ValueError before any test step; a run with valid   *)
(* parameters returns a result that has iperf and ping in it.              *)
(***************************************************************************)
InvalidParameters ==
    \/ run.server = ""
    \/ run.duration < 0
    \/ run.udp_target_mbps < 0

C25_RejectsInvalidRunsValid ==
    pc = "run_finished" =>
        IF InvalidParameters
        THEN run.outcome = "ValueError" /\ run.steps = <<>>
        ELSE run.outcome = "returned" /\ {"iperf", "ping"} \subseteq run.result

(***************************************************************************)
(* C26: the cursor is per-run state.  Every run starts with the cursor at  *)
(* "client" whatever the previous run ended on; the first hop of a run     *)
(* that replied appends its traversal to the edge from "client" to it and  *)
(* to no other edge; and every edge of the graph, in particular one from   *)
(* the last node of a run to the first hop of the next, is a transition    *)
(* that some single run made.                                              *)
(***************************************************************************)
\* the run in progress, its declared target not yet reached
RunInProgress ==
    [result EXCEPT !.target = NoTarget]

\* the runs folded so far, the one in progress last
RunsSoFar ==
    IF pc = "for_hop" THEN Append(traceroute_results, RunInProgress)
    ELSE traceroute_results

\* this step starts a run
BeginStep ==
    pc = "for_result" /\ pc' = "for_hop"

\* this step consumes the first hop of its run that replied
FirstReplyStep ==
    /\ HopStep
    /\ ConsumedHop.ip # "timeout"
    /\ Replies(result.hops) = <<>>

EveryEdgeWithinOneRun ==
    \A e \in DOMAIN G.paths :
        \E i \in DOMAIN RunsSoFar : Crossings(RunsSoFar[i], e[1], e[2]) > 0

C26_CursorIsPerRun ==
    /\ [][BeginStep => source' = "client"]_vars
    /\ [][FirstReplyStep =>
            /\ source = "client"
            /\ AppendedOne(PathsOf(G, <<"client", ConsumedHop.ip>>),
                           PathsOf(G', <<"client", ConsumedHop.ip>>))
            /\ \A e \in DOMAIN G'.paths \ {<<"client", ConsumedHop.ip>>} :
                  PathsOf(G', e) = PathsOf(G, e)]_vars
    /\ [](pc \in {"for_result", "for_hop", "done", "reported"} => EveryEdgeWithinOneRun)

\* a second run has made its first reply, to a node other than the one the
\* first run ended on, and no edge joins the two
C26_Witness ==
    /\ pc = "for_hop"
    /\ Len(traceroute_results) = 1
    /\ Len(Replies(result.hops)) = 1
    /\ LET last  == LastReached(traceroute_results[1].hops)
           first == Replies(result.hops)[1].ip
       IN  /\ last \notin {"client", first}
           /\ <<"client", first>> \in DOMAIN G.paths
           /\ G.paths[<<"client", first>>][Len(G.paths[<<"client", first>>])].artifact
                = result.artifact
           /\ <<last, first>> \notin DOMAIN G.paths

(***************************************************************************)
(* C27: the node set of the finalized graph is determined by the input.    *)
(* It is the set of the distinct IPs of the hops that replied, over all    *)
(* runs, plus the declared target of every run that has at least one hop   *)
(* and a target, plus "client" exactly when the graph has an edge.  In the *)
(* scenario of two artifacts, three replies in the server run and reply,   *)
(* timeout, reply in the wan run, all IPs distinct, the graph has the      *)
(* origin and exactly five nodes that are hop IPs, whatever the targets.   *)
(***************************************************************************)
\* the declared targets the runs draw an edge to
ReachedTargets(rs) ==
    {rs[i].target : i \in {j \in DOMAIN rs : HasTargetEdge(rs[j])}}

NodesFromInput(rs) ==
    HopIps(rs) \cup ReachedTargets(rs)
               \cup (IF \E i \in DOMAIN rs : Len(Walk(rs[i])) > 1
                     THEN {"client"} ELSE {})

\* the hops of the two runs of the scenario
ServerHops ==
    << [hop |-> 1, hostname |-> "Gateway-1", ip |-> "192.168.1.1", rtt_ms |-> 1],
       [hop |-> 2, hostname |-> "host",      ip |-> "10.0.0.11",   rtt_ms |-> 2],
       [hop |-> 3, hostname |-> "host",      ip |-> "10.0.0.5",    rtt_ms |-> 3] >>

WanHops ==
    << [hop |-> 1, hostname |-> "gateway",    ip |-> "10.0.0.1", rtt_ms |-> 1],
       TimeoutHop(2),
       [hop |-> 3, hostname |-> "dns.google", ip |-> "8.8.8.8",  rtt_ms |-> 3] >>

\* the scenario, for the targets the two first lines may declare
Scenarios ==
    { << TraceResult([Files[1] EXCEPT !.target = t1], ServerHops),
         TraceResult([Files[2] EXCEPT !.target = t2], WanHops) >> :
        t1 \in {NoTarget, "10.0.0.5", "example.com"},
        t2 \in {NoTarget, "8.8.8.8", "example.com"} }

ScenarioHasFiveHopNodes ==
    \A rs \in Scenarios :
        LET g == build_network_graph(rs)
        IN  /\ "client" \in g.nodes
            /\ Cardinality(HopIps(rs)) = 5
            /\ HopIps(rs) \subseteq g.nodes
            /\ g.nodes = NodesFromInput(rs)
            /\ ~has_edge(g, "10.0.0.1", "timeout")
            /\ "timeout" \notin g.nodes

C27_NodeSetFromInput ==
    /\ pc \in {"done", "reported"} =>
          /\ G.nodes = NodesFromInput(traceroute_results)
          /\ ("client" \in G.nodes) = (DOMAIN G.paths # {})
    /\ ScenarioHasFiveHopNodes

\* a finalized graph of two runs, one with a hop that timed out, and a
\* declared target that is a node without being a hop IP
C27_Witness ==
    /\ pc = "done"
    /\ Len(traceroute_results) = 2
    /\ \E i \in 1..2 : \E k \in DOMAIN traceroute_results[i].hops :
          traceroute_results[i].hops[k].ip = "timeout"
    /\ Cardinality(HopIps(traceroute_results)) = 2
    /\ ReachedTargets(traceroute_results) \ HopIps(traceroute_results) # {}
    /\ "client" \in G.nodes
    /\ G.nodes = NodesFromInput(traceroute_results)

(***************************************************************************)
(* C28: traversal conservation.  After folding any list of results, the    *)
(* lengths of the traversal lists of all edges add up to the number of hop *)
(* records that replied, over all runs, plus the number of runs that have  *)
(* hops and a declared target; every edge holds exactly as many entries as *)
(* the runs cross it, none lost and none counted twice, and no edge has an *)
(* empty list.  It holds at every point of the fold as well.               *)
(***************************************************************************)
TotalTraversals(g) ==
    SumOver([e \in DOMAIN g.paths |-> Len(g.paths[e])], DOMAIN g.paths)

\* the transitions of one run: its replies, and the edge to its target
Transitions(res) ==
    Len(Replies(res.hops)) + (IF HasTargetEdge(res) THEN 1 ELSE 0)

TotalTransitions(rs) ==
    SumOver([i \in DOMAIN rs |-> Transitions(rs[i])], DOMAIN rs)

C28_TraversalConservation ==
    pc \in {"for_result", "for_hop", "done", "reported"} =>
        LET rs == RunsSoFar
        IN  /\ TotalTraversals(G) = TotalTransitions(rs)
            /\ \A e \in DOMAIN G.paths :
                  /\ G.paths[e] # <<>>
                  /\ Len(G.paths[e])
                       = SumOver([i \in DOMAIN rs |-> Crossings(rs[i], e[1], e[2])],
                                 DOMAIN rs)

\* a finalized graph with an edge crossed more than once, an edge to a
\* declared target, and a hop that timed out
C28_Witness ==
    /\ pc = "done"
    /\ \E e \in DOMAIN G.paths : Len(G.paths[e]) >= 2
    /\ \E i \in DOMAIN traceroute_results : HasTargetEdge(traceroute_results[i])
    /\ \E i \in DOMAIN traceroute_results :
          Len(Replies(traceroute_results[i].hops)) < Len(traceroute_results[i].hops)
    /\ TotalTraversals(G) = TotalTransitions(traceroute_results)
    /\ TotalTraversals(G) < TotalHops(traceroute_results) + Len(traceroute_results)

====
